---- MODULE Spec2Model ----
(***************************************************************************)
(* Model of the MKV ingestion pipeline of                                  *)
(* amazon_kinesis_video_consumer_library/mkv_parser.py: the MkvParser      *)
(* thread (run), its worker thread (process_queue), the frame_queue that   *)
(* joins them and the three caller-supplied callbacks.                     *)
(***************************************************************************)
EXTENDS Integers, Sequences, FiniteSets, TLC

\* ------------------------------------------------------------------ bounds
MaxFrames == 4
MaxGroupSize == 3
MaxStopCalls == 2
MaxMdFrames == 3
MaxLabels == 3
MaxConnections == 3
MaxTimedFrames == 1
MaxTime == 2
FramePixels == 1

\* ------------------------------------------------------ program constants
DefaultThreshold == 90
DefaultMinMotionPixels == 3500

VARIABLES
    source,             \* frames container.decode(video=0) would yield, in order
    open_fails,         \* av.open raises for this file
    decode_fails,       \* container.decode raises at some point
    fail_after,         \* ... after having yielded this many frames
    bad_frames,         \* frames whose JPEG encoding raises
    frame_group_size,   \* self.frame_group_size
    stop_get_media,     \* self._stop_get_media
    frame_queue,        \* self.frame_queue (FIFO of batches and None)
    frames_accumulated, \* local of run
    pulled,             \* number of frames the decode generator has yielded
    frame,              \* loop variable of run (0 before the first frame)
    runPc,              \* position of the MkvParser thread in run
    workerPc,           \* position of worker_thread in process_queue
    item,               \* local of process_queue: last item popped
    combined_buffer,    \* local of process_queue
    put_log,            \* every item put on frame_queue, in order
    got_log,            \* every item popped by process_queue, in order
    events,             \* every callback invocation, in order
    raised,             \* kinds of exception raised so far
    broke,              \* the for loop of run was left through break
    stop_calls,         \* number of calls of stop_thread so far
    pulled_at_stop,     \* value of pulled when stop_thread was first called
    now,                \* timeit.default_timer(): the clock
    start_time,         \* local of process_queue
    got_time,           \* the clock when the last item was popped
    fragment_receive_duration, \* local of process_queue
    md_frames,          \* MotionDetector: the decoded frames of a fragment
    md_ratio,           \* MotionDetector: one_in_frames_ratio
    md_threshold,       \* MotionDetector: threshold
    md_min_motion_pixels, \* MotionDetector: min_motion_pixels
    md_pc,              \* MotionDetector: which method has returned
    md_result,          \* MotionDetector: what it returned
    bb_labels,          \* get_bounding_boxes: labels_fragment
    bb_pc,              \* get_bounding_boxes: whether it has returned
    bb_result,          \* get_bounding_boxes: fragment_bounding_boxes
    ws_connections,     \* send_message_to_clients: active_connections
    ws_message,         \* send_message_to_clients: message
    ws_next,            \* position of the for loop in active_connections
    ws_pc,              \* send_message_to_clients: where the call is
    ws_posts,           \* every call of post_to_connection, in order
    ws_printed          \* every line printed by an except clause, in order

vars == <<source, open_fails, decode_fails, fail_after, bad_frames,
          frame_group_size, stop_get_media, frame_queue, frames_accumulated,
          pulled, frame, runPc, workerPc, item, combined_buffer, put_log,
          got_log, events, raised, broke, stop_calls, pulled_at_stop,
          now, start_time, got_time, fragment_receive_duration,
          md_frames, md_ratio, md_threshold, md_min_motion_pixels, md_pc,
          md_result, bb_labels, bb_pc, bb_result,
          ws_connections, ws_message, ws_next, ws_pc, ws_posts, ws_printed>>

stopVars == <<stop_get_media, stop_calls, pulled_at_stop>>

mdVars == <<md_frames, md_ratio, md_threshold, md_min_motion_pixels, md_pc,
            md_result>>

bbVars == <<bb_labels, bb_pc, bb_result>>

wsVars == <<ws_connections, ws_message, ws_next, ws_pc, ws_posts, ws_printed>>

inputs == <<source, open_fails, decode_fails, fail_after, bad_frames,
            frame_group_size>>

runVars == <<frames_accumulated, pulled, frame, runPc, broke>>

workerVars == <<workerPc, item, combined_buffer, got_log, start_time, got_time,
                fragment_receive_duration>>

\* ------------------------------------------------------- data and helpers
\* The None sentinel and a list of frames, as items of frame_queue.
None == [kind |-> "none", frames |-> <<>>]

Batch(fs) == [kind |-> "batch", frames |-> fs]

\* frame.to_image().save(buffer, format="jpeg"): the bytes one frame adds to
\* the buffer; their number depends on the frame.
EncodeFrame(f) == <<f>> \o [i \in 1..(f % 2) |-> 0]

\* Does encoding this frame raise?
EncodeRaises(f) == f \in bad_frames

\* Mutation of frames_to_bytes: the buffer is created anew for every frame,
\* so only the bytes of the last frame are returned.
frames_to_bytes_FreshBuffer(frames) ==
    IF frames = <<>> THEN <<>> ELSE EncodeFrame(frames[Len(frames)])

RECURSIVE frames_to_bytes(_)
frames_to_bytes(frames) ==
    IF frames = <<>> THEN <<>>
    ELSE EncodeFrame(Head(frames)) \o frames_to_bytes(Tail(frames))

\* frames_to_bytes raises iff the encoding of one of its frames raises.
frames_to_bytes_raises(frames) ==
    \E i \in 1..Len(frames) : EncodeRaises(frames[i])

process_frame_to_dom(fragment_bytes) ==
    [raw_bytes |-> fragment_bytes, size |-> Len(fragment_bytes)]

\* len(frames_accumulated) >= self.frame_group_size, with a mutation that
\* compares strictly.
GroupFull_Strict(acc) == Len(acc) > frame_group_size

GroupFull(acc) == Len(acc) >= frame_group_size

\* Queue.get() on a non-empty queue: the oldest item and the rest, with a
\* mutation that hands out the newest item instead.
Dequeue_Lifo(q) == [item |-> q[Len(q)], rest |-> SubSeq(q, 1, Len(q) - 1)]

Dequeue(q) == [item |-> Head(q), rest |-> Tail(q)]

\* self.frame_queue = Queue(): no maxsize, so put never finds the queue
\* full; with a mutation that bounds the queue to one item.
QueueFull_Bounded(q) == Len(q) >= 1

QueueFull(q) == FALSE

FragmentEvent(buf, dom, duration) ==
    [type |-> "fragment", payload |-> buf, size |-> dom.size, detail |-> "",
     duration |-> duration]

CompleteEvent == [type |-> "complete", payload |-> <<>>, size |-> 0, detail |-> ""]

ExceptionEvent(d) == [type |-> "exception", payload |-> <<>>, size |-> 0, detail |-> d]

\* ------------------------------------------------------ MotionDetector
\* Pixels are BGR triples; the frames of the model take their pixels from
\* a small palette: black, pure red and magenta, of intensities 0, 76 and
\* 105, so that some pairs differ by more than the default threshold and
\* some by less.
Palette == {<<0, 0, 0>>, <<0, 0, 255>>, <<255, 0, 255>>}

MdFrame == [1..FramePixels -> Palette]

Abs(x) == IF x < 0 THEN -x ELSE x

\* cv2.cvtColor(frame, cv2.COLOR_BGR2GRAY): the 8-bit fixed-point luma of
\* every pixel.
Gray(p) == (p[1] * 1868 + p[2] * 9617 + p[3] * 4899 + 8192) \div 16384

cvtColor(fr) == [i \in 1..Len(fr) |-> Gray(fr[i])]

\* cv2.absdiff(prev_frame, frame_gray)
absdiff(a, b) == [i \in 1..Len(a) |-> Abs(a[i] - b[i])]

\* cv2.threshold(diff, threshold, 255, cv2.THRESH_BINARY)
threshold_binary(diff, th) == [i \in 1..Len(diff) |-> IF diff[i] > th THEN 255 ELSE 0]

\* cv2.countNonZero(diff_thresh)
countNonZero(img) == Cardinality({i \in 1..Len(img) : img[i] # 0})

\* non_zero_count > min_motion_pixels, with a mutation that also accepts
\* equality.
IsMotion_AtLeast(count, mmp) == count >= mmp

IsMotion(count, mmp) == count > mmp

\* prev_frame = frame_gray at the end of every iteration, with a mutation
\* that keeps the previous reference when the frame was not retained.
NextPrev_Retained(prev, frame_gray, has_prev, motion) ==
    IF has_prev /\ ~motion THEN prev ELSE frame_gray

NextPrev(prev, frame_gray, has_prev, motion) == frame_gray

\* The for loop of frame_differencing from position idx on (positions count
\* from 1): the positions of the frames appended to motion_frames.
RECURSIVE DiffLoop(_, _, _, _, _, _)
DiffLoop(frames, idx, prev, has_prev, th, mmp) ==
    IF idx > Len(frames) THEN <<>>
    ELSE LET frame_gray == cvtColor(frames[idx])
             motion == /\ has_prev
                       /\ IsMotion(countNonZero(threshold_binary(
                                      absdiff(prev, frame_gray), th)), mmp)
         IN (IF motion THEN <<idx>> ELSE <<>>)
            \o DiffLoop(frames, idx + 1,
                        NextPrev(prev, frame_gray, has_prev, motion), TRUE, th, mmp)

\* Mutation of frame_differencing: prev_frame starts as an all-black image
\* instead of None, so the first frame is compared too.
frame_differencing_BlackPrev(frames, th, mmp) ==
    LET idxs == DiffLoop(frames, 1, [i \in 1..FramePixels |-> 0], TRUE, th, mmp) IN
    [raised |-> FALSE,
     frames |-> [k \in 1..Len(idxs) |-> frames[idxs[k]]],
     indices |-> idxs]

\* frame_differencing(frames, threshold, min_motion_pixels): the list of the
\* retained frames, with the positions they had in the input.
frame_differencing(frames, th, mmp) ==
    LET idxs == DiffLoop(frames, 1, <<>>, FALSE, th, mmp) IN
    [raised |-> FALSE,
     frames |-> [k \in 1..Len(idxs) |-> frames[idxs[k]]],
     indices |-> idxs]

\* The mean-difference variant of the differencing (spec.md, section 4.6).
\* The sum, over all pixels and channels, of the absolute value of the
\* signed difference, computed in a type wide enough not to wrap around.
RECURSIVE SumAbsDiff(_, _, _)
SumAbsDiff(a, b, i) ==
    IF i > Len(a) THEN 0
    ELSE Abs(a[i][1] - b[i][1]) + Abs(a[i][2] - b[i][2]) + Abs(a[i][3] - b[i][3])
           + SumAbsDiff(a, b, i + 1)

\* The mean of the absolute difference exceeds threshold: the mean is the
\* sum divided by the number of values, 3 per pixel.
MeanExceeds(a, b, th) == SumAbsDiff(a, b, 1) > th * (Len(a) * 3)

\* The frame a frame is compared with: the one just before it in the input,
\* with a mutation that takes the last frame retained.
MeanBaseline_Retained(prev_original, prev_retained) == prev_retained

MeanBaseline(prev_original, prev_retained) == prev_original

\* The frames from position idx on (idx >= 2): the positions retained.
RECURSIVE MeanLoop(_, _, _, _)
MeanLoop(frames, idx, last_retained, th) ==
    IF idx > Len(frames) THEN <<>>
    ELSE LET keep == MeanExceeds(frames[idx],
                        MeanBaseline(frames[idx - 1], frames[last_retained]), th)
         IN (IF keep THEN <<idx>> ELSE <<>>)
            \o MeanLoop(frames, idx + 1, IF keep THEN idx ELSE last_retained, th)

\* frame[0] is always retained; an empty input gives an empty result.
mean_difference(frames, th) ==
    LET idxs == IF frames = <<>> THEN <<>>
                ELSE <<1>> \o MeanLoop(frames, 2, 1, th) IN
    [raised |-> FALSE,
     frames |-> [k \in 1..Len(idxs) |-> frames[idxs[k]]],
     indices |-> idxs]

\* range(start, stop, step) for step # 0, as the sequence of its values.
RECURSIVE range(_, _, _)
range(start, stop, step) ==
    IF (step > 0 /\ start >= stop) \/ (step < 0 /\ start <= stop) THEN <<>>
    ELSE <<start>> \o range(start + step, stop, step)

\* Mutation of get_frames_as_ndarray: the first frame taken is the N-th.
get_frames_as_ndarray_SkipFirst(frames, one_in_frames_ratio) ==
    IF one_in_frames_ratio = 0
    THEN [raised |-> TRUE, frames |-> <<>>, indices |-> <<>>]
    ELSE LET idxs == range(one_in_frames_ratio - 1, Len(frames), one_in_frames_ratio) IN
         [raised |-> FALSE,
          frames |-> [k \in 1..Len(idxs) |-> frames[idxs[k] + 1]],
          indices |-> [k \in 1..Len(idxs) |-> idxs[k] + 1]]

\* get_frames_as_ndarray on the decoded frames of the fragment: frames[i]
\* for i in range(0, len(frames), one_in_frames_ratio); range raises
\* ValueError for a step of 0.
get_frames_as_ndarray(frames, one_in_frames_ratio) ==
    IF one_in_frames_ratio = 0
    THEN [raised |-> TRUE, frames |-> <<>>, indices |-> <<>>]
    ELSE LET idxs == range(0, Len(frames), one_in_frames_ratio) IN
         [raised |-> FALSE,
          frames |-> [k \in 1..Len(idxs) |-> frames[idxs[k] + 1]],
          indices |-> [k \in 1..Len(idxs) |-> idxs[k] + 1]]

NoResult == [raised |-> FALSE, frames |-> <<>>, indices |-> <<>>]

\* The motion detector is not in use.
MdIdle ==
    /\ md_frames = <<>>
    /\ md_ratio = 1
    /\ md_threshold = 0
    /\ md_min_motion_pixels = 0
    /\ md_pc = "idle"
    /\ md_result = NoResult

\* ---------------------------------------------------- get_bounding_boxes
\* The names the labels of the model take theirs from.
LabelNames == {"a", "b", "c"}

\* An instance of a label, as Rekognition reports it.
Instance == [BoundingBox |-> 1, Confidence |-> 90]

\* The names a label may list in Parents: the hierarchy of labels has no
\* cycle, "a" being the most specific name and "c" the most general.
Above(nm) == IF nm = "a" THEN {"b", "c"} ELSE IF nm = "b" THEN {"c"} ELSE {}

\* A label: Name, the names listed in Parents, and Instances.
Label ==
    UNION {{[Name |-> nm, Parents |-> ps, Instances |-> ins] :
               ps \in SUBSET Above(nm), ins \in {<<>>, <<Instance>>}} :
             nm \in LabelNames}

\* A label is skipped when it has no instance or its name is already in
\* parents.
IsSkipped(label, parents) ==
    ~(Len(label.Instances) > 0 /\ label.Name \notin parents)

\* The first for loop of get_bounding_boxes from position i on: the labels
\* with instances whose name is not yet in parents are appended to
\* child_labels and the names of their Parents are added to parents.
RECURSIVE FilterLoop(_, _, _, _)
FilterLoop(labels, i, parents, child_labels) ==
    IF i > Len(labels) THEN [parents |-> parents, child_labels |-> child_labels]
    ELSE IF IsSkipped(labels[i], parents)
         THEN FilterLoop(labels, i + 1, parents, child_labels)
         ELSE FilterLoop(labels, i + 1, parents \cup labels[i].Parents,
                         Append(child_labels, labels[i]))

\* The bounding boxes of the instances of one label.
BoxesOf(label) ==
    [k \in 1..Len(label.Instances) |->
        [Name |-> label.Name,
         Bounding_box |-> label.Instances[k].BoundingBox,
         Confidence |-> label.Instances[k].Confidence]]

\* The second for loop: the boxes of the valid labels, in order.
RECURSIVE ExtractBoxes(_)
ExtractBoxes(valid) ==
    IF valid = <<>> THEN <<>>
    ELSE BoxesOf(Head(valid)) \o ExtractBoxes(Tail(valid))

\* Mutation of get_bounding_boxes: the child labels are not filtered against
\* the final set of parents.
get_bounding_boxes_NoFinalFilter(labels_fragment) ==
    LET r == FilterLoop(labels_fragment, 1, {}, <<>>)
    IN <<ExtractBoxes(r.child_labels)>>

\* get_bounding_boxes(labels_fragment): a list holding the one list of boxes.
get_bounding_boxes(labels_fragment) ==
    LET r == FilterLoop(labels_fragment, 1, {}, <<>>)
        NotParent(label) == label.Name \notin r.parents
        valid_fragment_labels == SelectSeq(r.child_labels, NotParent)
    IN <<ExtractBoxes(valid_fragment_labels)>>

\* get_bounding_boxes is not in use.
BbIdle ==
    /\ bb_labels = <<>>
    /\ bb_pc = "idle"
    /\ bb_result = <<>>

\* ----------------------------------------------- send_message_to_clients
\* The connection ids of the model.
ConnectionId == {1, 2}

\* The messages of the model: process_fragment_frames sends a dict of the
\* fragment number, the timestamp and the bounding boxes, all of which
\* json.dumps accepts.
Message == {[fragment_number |-> "f1", labels |-> 0],
            [fragment_number |-> "f2", labels |-> 1]}

\* json.dumps(message): the text of the keys and values, in order.
json_dumps(m) == <<"fragment_number", m.fragment_number, "labels", m.labels>>

\* The call apigw_client.post_to_connection(ConnectionId=..., Data=...).
PostCall(connection_id, message) ==
    [ConnectionId |-> connection_id, Data |-> json_dumps(message)]

\* send_message_to_clients is not in use.
WsIdle ==
    /\ ws_connections = <<>>
    /\ ws_message = [fragment_number |-> "f1", labels |-> 0]
    /\ ws_next = 1
    /\ ws_pc = "idle"
    /\ ws_posts = <<>>
    /\ ws_printed = <<>>

\* ------------------------------------------------------------------- Init
\* The fields and locals of an MkvParser that __init__ has returned.
Constructed ==
    /\ stop_get_media = FALSE
    /\ frame_queue = <<>>
    /\ frames_accumulated = <<>>
    /\ pulled = 0
    /\ frame = 0
    /\ runPc = "created"
    /\ workerPc = "not_started"
    /\ item = None
    /\ combined_buffer = <<>>
    /\ put_log = <<>>
    /\ got_log = <<>>
    /\ events = <<>>
    /\ raised = {}
    /\ broke = FALSE
    /\ stop_calls = 0
    /\ pulled_at_stop = 0
    /\ now = 0
    /\ start_time = 0
    /\ got_time = 0
    /\ fragment_receive_duration = 0

Init ==
    /\ \E n \in 0..MaxFrames :
          /\ source = [i \in 1..n |-> i]
          /\ bad_frames \in SUBSET (1..n)
          /\ decode_fails \in BOOLEAN
          /\ fail_after \in (IF decode_fails THEN 0..n ELSE {0})
    /\ open_fails \in BOOLEAN
    /\ frame_group_size \in (-1)..MaxGroupSize
    /\ Constructed
    /\ MdIdle
    /\ BbIdle
    /\ WsIdle

\* The files of the runs whose timing is followed: short ones, which every
\* frame of is decoded and encoded without failure.
TimingInit ==
    /\ \E n \in 0..MaxTimedFrames : source = [i \in 1..n |-> i]
    /\ bad_frames = {}
    /\ decode_fails = FALSE
    /\ fail_after = 0
    /\ open_fails \in BOOLEAN
    /\ frame_group_size = 1
    /\ Constructed
    /\ MdIdle
    /\ BbIdle
    /\ WsIdle

\* ------------------------------------------------------ control surface
\* Mutation of stop_thread: the flag is toggled instead of set.
stop_thread_Toggle ==
    /\ stop_calls < MaxStopCalls
    /\ stop_get_media' = ~stop_get_media
    /\ stop_calls' = stop_calls + 1
    /\ pulled_at_stop' = IF stop_get_media THEN pulled_at_stop ELSE pulled
    /\ UNCHANGED <<mdVars, bbVars, wsVars, now, inputs, frame_queue, runVars, workerVars, put_log, events, raised>>

\* self._stop_get_media = True; callable from any thread at any time, any
\* number of times (bounded here by MaxStopCalls).
stop_thread ==
    /\ stop_calls < MaxStopCalls
    /\ stop_get_media' = TRUE
    /\ stop_calls' = stop_calls + 1
    /\ pulled_at_stop' = IF stop_get_media THEN pulled_at_stop ELSE pulled
    /\ UNCHANGED <<mdVars, bbVars, wsVars, now, inputs, frame_queue, runVars, workerVars, put_log, events, raised>>

\* Mutation of Start: run clears the stop flag when it begins.
Start_ResetsFlag ==
    /\ runPc = "created"
    /\ runPc' = "open"
    /\ stop_get_media' = FALSE
    /\ UNCHANGED <<mdVars, bbVars, wsVars, now, inputs, stop_calls, pulled_at_stop, frame_queue,
                   frames_accumulated, pulled, frame, broke, workerVars,
                   put_log, events, raised>>

\* Thread.start() on the MkvParser: run begins.
Start ==
    /\ runPc = "created"
    /\ runPc' = "open"
    /\ UNCHANGED <<mdVars, bbVars, wsVars, now, inputs, stopVars, frame_queue, frames_accumulated,
                   pulled, frame, broke, workerVars, put_log, events, raised>>

\* ------------------------------------------------------------------ run
\* container = av.open(self.mkv_file_path)
Open ==
    /\ runPc = "open"
    /\ IF open_fails
       THEN /\ runPc' = "except_open"
            /\ raised' = raised \cup {"open"}
       ELSE /\ runPc' = "start_worker"
            /\ UNCHANGED raised
    /\ UNCHANGED <<mdVars, bbVars, wsVars, now, inputs, stopVars, frame_queue, frames_accumulated,
                   pulled, frame, broke, workerVars, put_log, events>>

\* worker_thread = Thread(target=self.process_queue); worker_thread.start();
\* frames_accumulated = []
StartWorker ==
    /\ runPc = "start_worker"
    /\ workerPc' = "mark"
    /\ frames_accumulated' = <<>>
    /\ runPc' = "pull"
    /\ UNCHANGED <<mdVars, bbVars, wsVars, now, inputs, stopVars, frame_queue, pulled, frame, broke,
                   item, combined_buffer, got_log, start_time, got_time,
                   fragment_receive_duration, put_log, events, raised>>

\* Mutation of Pull: a decode failure is swallowed and treated as the end of
\* the source.
Pull_SwallowError ==
    /\ runPc = "pull"
    /\ IF decode_fails /\ pulled = fail_after
       THEN /\ runPc' = "flush"
            /\ raised' = raised \cup {"decode"}
            /\ UNCHANGED <<pulled, frame>>
       ELSE IF pulled = Len(source)
       THEN /\ runPc' = "flush"
            /\ UNCHANGED <<pulled, frame, raised>>
       ELSE /\ pulled' = pulled + 1
            /\ frame' = source[pulled + 1]
            /\ runPc' = "body"
            /\ UNCHANGED raised
    /\ UNCHANGED <<mdVars, bbVars, wsVars, now, inputs, stopVars, frame_queue, frames_accumulated,
                   broke, workerVars, put_log, events>>

\* for frame in container.decode(video=0): the generator yields the next
\* frame, raises, or is exhausted.
Pull ==
    /\ runPc = "pull"
    /\ IF decode_fails /\ pulled = fail_after
       THEN /\ runPc' = "except_decode"
            /\ raised' = raised \cup {"decode"}
            /\ UNCHANGED <<pulled, frame>>
       ELSE IF pulled = Len(source)
       THEN /\ runPc' = "flush"
            /\ UNCHANGED <<pulled, frame, raised>>
       ELSE /\ pulled' = pulled + 1
            /\ frame' = source[pulled + 1]
            /\ runPc' = "body"
            /\ UNCHANGED raised
    /\ UNCHANGED <<mdVars, bbVars, wsVars, now, inputs, stopVars, frame_queue, frames_accumulated,
                   broke, workerVars, put_log, events>>

\* Mutation of LoopBody: the break throws the accumulated frames away.
LoopBody_BreakDiscards ==
    /\ runPc = "body"
    /\ IF stop_get_media
       THEN /\ broke' = TRUE
            /\ runPc' = "flush"
            /\ frames_accumulated' = <<>>
            /\ UNCHANGED <<frame_queue, put_log>>
       ELSE LET acc == Append(frames_accumulated, frame) IN
            /\ IF GroupFull(acc)
               THEN /\ frame_queue' = Append(frame_queue, Batch(acc))
                    /\ put_log' = Append(put_log, Batch(acc))
                    /\ frames_accumulated' = <<>>
               ELSE /\ frames_accumulated' = acc
                    /\ UNCHANGED <<frame_queue, put_log>>
            /\ runPc' = "pull"
            /\ UNCHANGED broke
    /\ UNCHANGED <<mdVars, bbVars, wsVars, now, inputs, stopVars, pulled, frame, workerVars, events,
                   raised>>

\* Mutation of LoopBody: the stop flag is looked at only when a group is full.
LoopBody_LateCheck ==
    /\ runPc = "body"
    /\ LET acc == Append(frames_accumulated, frame) IN
       IF GroupFull(acc) /\ stop_get_media
       THEN /\ broke' = TRUE
            /\ runPc' = "flush"
            /\ UNCHANGED <<frames_accumulated, frame_queue, put_log>>
       ELSE /\ IF GroupFull(acc)
               THEN /\ frame_queue' = Append(frame_queue, Batch(acc))
                    /\ put_log' = Append(put_log, Batch(acc))
                    /\ frames_accumulated' = <<>>
               ELSE /\ frames_accumulated' = acc
                    /\ UNCHANGED <<frame_queue, put_log>>
            /\ runPc' = "pull"
            /\ UNCHANGED broke
    /\ UNCHANGED <<mdVars, bbVars, wsVars, now, inputs, stopVars, pulled, frame, workerVars, events,
                   raised>>

\* The body of the for loop: the stop check, the append and the hand-off of
\* a full group.
LoopBody ==
    /\ runPc = "body"
    /\ IF stop_get_media
       THEN /\ broke' = TRUE
            /\ runPc' = "flush"
            /\ UNCHANGED <<frames_accumulated, frame_queue, put_log>>
       ELSE LET acc == Append(frames_accumulated, frame) IN
            /\ IF GroupFull(acc)
               THEN /\ ~QueueFull(frame_queue)
                    /\ frame_queue' = Append(frame_queue, Batch(acc))
                    /\ put_log' = Append(put_log, Batch(acc))
                    /\ frames_accumulated' = <<>>
               ELSE /\ frames_accumulated' = acc
                    /\ UNCHANGED <<frame_queue, put_log>>
            /\ runPc' = "pull"
            /\ UNCHANGED broke
    /\ UNCHANGED <<mdVars, bbVars, wsVars, now, inputs, stopVars, pulled, frame, workerVars, events,
                   raised>>

\* Mutation of Flush: the accumulated list is put even when it is empty.
Flush_Always ==
    /\ runPc = "flush"
    /\ frame_queue' = Append(frame_queue, Batch(frames_accumulated))
    /\ put_log' = Append(put_log, Batch(frames_accumulated))
    /\ runPc' = "put_none"
    /\ UNCHANGED <<mdVars, bbVars, wsVars, now, inputs, stopVars, frames_accumulated, pulled, frame,
                   broke, workerVars, events, raised>>

\* if frames_accumulated: self.frame_queue.put(frames_accumulated)
Flush ==
    /\ runPc = "flush"
    /\ IF frames_accumulated # <<>>
       THEN /\ ~QueueFull(frame_queue)
            /\ frame_queue' = Append(frame_queue, Batch(frames_accumulated))
            /\ put_log' = Append(put_log, Batch(frames_accumulated))
       ELSE UNCHANGED <<frame_queue, put_log>>
    /\ runPc' = "put_none"
    /\ UNCHANGED <<mdVars, bbVars, wsVars, now, inputs, stopVars, frames_accumulated, pulled, frame,
                   broke, workerVars, events, raised>>

\* Mutation of PutNone: the terminal marker is put twice.
PutNone_Twice ==
    /\ runPc = "put_none"
    /\ frame_queue' = frame_queue \o <<None, None>>
    /\ put_log' = put_log \o <<None, None>>
    /\ runPc' = "join"
    /\ UNCHANGED <<mdVars, bbVars, wsVars, now, inputs, stopVars, frames_accumulated, pulled, frame,
                   broke, workerVars, events, raised>>

\* self.frame_queue.put(None)
PutNone ==
    /\ runPc = "put_none"
    /\ ~QueueFull(frame_queue)
    /\ frame_queue' = Append(frame_queue, None)
    /\ put_log' = Append(put_log, None)
    /\ runPc' = "join"
    /\ UNCHANGED <<mdVars, bbVars, wsVars, now, inputs, stopVars, frames_accumulated, pulled, frame,
                   broke, workerVars, events, raised>>

\* Mutation of Join: run does not wait for the worker thread.
Join_NoWait ==
    /\ runPc = "join"
    /\ runPc' = "complete"
    /\ UNCHANGED <<mdVars, bbVars, wsVars, now, inputs, stopVars, frame_queue, frames_accumulated,
                   pulled, frame, broke, workerVars, put_log, events, raised>>

\* worker_thread.join(): returns once the worker thread has ended, whether
\* by returning from process_queue or by an uncaught exception.
Join ==
    /\ runPc = "join"
    /\ workerPc \in {"done", "crashed"}
    /\ runPc' = "complete"
    /\ UNCHANGED <<mdVars, bbVars, wsVars, now, inputs, stopVars, frame_queue, frames_accumulated,
                   pulled, frame, broke, workerVars, put_log, events, raised>>

\* self.on_read_stream_complete_callback(self.mkv_file_path); the callback
\* is the caller's and may raise, which the except clause of run catches.
Complete ==
    /\ runPc = "complete"
    /\ events' = Append(events, CompleteEvent)
    /\ \E raises \in BOOLEAN :
          IF raises
          THEN /\ runPc' = "except_callback"
               /\ raised' = raised \cup {"complete_callback"}
          ELSE /\ runPc' = "done"
               /\ UNCHANGED raised
    /\ UNCHANGED <<mdVars, bbVars, wsVars, now, inputs, stopVars, frame_queue, frames_accumulated,
                   pulled, frame, broke, workerVars, put_log>>

\* str(e) for the exception the except clause caught.
ErrorDetail(pc) ==
    CASE pc = "except_open" -> "open_error"
      [] pc = "except_decode" -> "decode_error"
      [] pc = "except_callback" -> "callback_error"

\* except Exception as e: self.on_read_stream_exception(str(e)); if the
\* callback raises, the exception leaves run and the thread ends.
Except ==
    /\ runPc \in {"except_open", "except_decode", "except_callback"}
    /\ events' = Append(events, ExceptionEvent(ErrorDetail(runPc)))
    /\ \E raises \in BOOLEAN :
          raised' = IF raises THEN raised \cup {"exception_callback"} ELSE raised
    /\ runPc' = "done"
    /\ UNCHANGED <<mdVars, bbVars, wsVars, now, inputs, stopVars, frame_queue, frames_accumulated,
                   pulled, frame, broke, workerVars, put_log>>

\* -------------------------------------------------------- process_queue
\* while True: start_time = timeit.default_timer()
Mark ==
    /\ workerPc = "mark"
    /\ start_time' = now
    /\ workerPc' = "get"
    /\ UNCHANGED <<mdVars, bbVars, wsVars, now, inputs, stopVars, frame_queue, runVars, item,
                   combined_buffer, got_log, got_time, fragment_receive_duration,
                   put_log, events, raised>>

\* Mutation of Get: the start of the interval is taken once the item has
\* been popped.
Get_MarksTime ==
    /\ workerPc = "get"
    /\ frame_queue # <<>>
    /\ item' = Dequeue(frame_queue).item
    /\ frame_queue' = Dequeue(frame_queue).rest
    /\ got_log' = Append(got_log, item')
    /\ got_time' = now
    /\ start_time' = now
    /\ workerPc' = IF item' = None THEN "done" ELSE "encode"
    /\ UNCHANGED <<mdVars, bbVars, wsVars, now, inputs, stopVars, runVars, combined_buffer,
                   fragment_receive_duration, put_log, events, raised>>

\* item = self.frame_queue.get(): blocks while the queue is empty;
\* if item is None: break
Get ==
    /\ workerPc = "get"
    /\ frame_queue # <<>>
    /\ item' = Dequeue(frame_queue).item
    /\ frame_queue' = Dequeue(frame_queue).rest
    /\ got_log' = Append(got_log, item')
    /\ got_time' = now
    /\ workerPc' = IF item' = None THEN "done" ELSE "encode"
    /\ UNCHANGED <<mdVars, bbVars, wsVars, now, inputs, stopVars, runVars, combined_buffer,
                   start_time, fragment_receive_duration, put_log, events, raised>>

\* combined_buffer = self.frames_to_bytes(frames);
\* fragment_receive_duration = timeit.default_timer() - start_time;
\* an exception of the encoder is not caught in process_queue and ends the
\* worker thread.
Encode ==
    /\ workerPc = "encode"
    /\ IF frames_to_bytes_raises(item.frames)
       THEN /\ workerPc' = "crashed"
            /\ raised' = raised \cup {"encode"}
            /\ UNCHANGED <<combined_buffer, fragment_receive_duration>>
       ELSE /\ combined_buffer' = frames_to_bytes(item.frames)
            /\ fragment_receive_duration' = now - start_time
            /\ workerPc' = "notify"
            /\ UNCHANGED raised
    /\ UNCHANGED <<mdVars, bbVars, wsVars, now, inputs, stopVars, frame_queue, runVars, item, got_log,
                   start_time, got_time, put_log, events>>

\* fragment_dom = self.process_frame_to_dom(combined_buffer);
\* self.on_fragment_arrived_callback(combined_buffer, fragment_dom, ...);
\* an exception of the callback is not caught and ends the worker thread.
Notify ==
    /\ workerPc = "notify"
    /\ events' = Append(events,
                   FragmentEvent(combined_buffer, process_frame_to_dom(combined_buffer),
                                 fragment_receive_duration))
    /\ \E raises \in BOOLEAN :
          IF raises
          THEN /\ workerPc' = "crashed"
               /\ raised' = raised \cup {"fragment_callback"}
          ELSE /\ workerPc' = "mark"
               /\ UNCHANGED raised
    /\ UNCHANGED <<mdVars, bbVars, wsVars, now, inputs, stopVars, frame_queue, runVars, item,
                   combined_buffer, got_log, start_time, got_time,
                   fragment_receive_duration, put_log>>

\* ------------------------------------------------------------------ Spec
Next ==
    \/ stop_thread
    \/ Start
    \/ Open
    \/ StartWorker
    \/ Pull
    \/ LoopBody
    \/ Flush
    \/ PutNone
    \/ Join
    \/ Complete
    \/ Except
    \/ Mark
    \/ Get
    \/ Encode
    \/ Notify

Spec == Init /\ [][Next]_vars

\* The steps of the MkvParser thread and of worker_thread. Both are threads
\* of the interpreter, which lets every thread that can run do so again and
\* again; stop_thread is called from outside, or never.
RunStep ==
    \/ Start
    \/ Open
    \/ StartWorker
    \/ Pull
    \/ LoopBody
    \/ Flush
    \/ PutNone
    \/ Join
    \/ Complete
    \/ Except

WorkerStep ==
    \/ Mark
    \/ Get
    \/ Encode
    \/ Notify

FairSpec == Spec /\ WF_vars(RunStep) /\ WF_vars(WorkerStep)

\* Time passes: timeit.default_timer() returns a larger value from now on.
Tick ==
    /\ now < MaxTime
    /\ now' = now + 1
    /\ UNCHANGED <<mdVars, bbVars, wsVars, inputs, stopVars, frame_queue, runVars, workerVars,
                   put_log, events, raised>>

TimingNext ==
    \/ Next
    \/ Tick

TimingSpec == TimingInit /\ [][TimingNext]_vars

\* ------------------------------------------- MotionDetector on its own
pipelineVars == <<inputs, stopVars, frame_queue, runVars, workerVars, put_log,
                  events, raised, now>>

\* No MkvParser has been started.
PipelineIdle ==
    /\ source = <<>>
    /\ bad_frames = {}
    /\ decode_fails = FALSE
    /\ fail_after = 0
    /\ open_fails = FALSE
    /\ frame_group_size = 1
    /\ stop_get_media = FALSE
    /\ frame_queue = <<>>
    /\ frames_accumulated = <<>>
    /\ pulled = 0
    /\ frame = 0
    /\ runPc = "created"
    /\ workerPc = "not_started"
    /\ item = None
    /\ combined_buffer = <<>>
    /\ put_log = <<>>
    /\ got_log = <<>>
    /\ events = <<>>
    /\ raised = {}
    /\ broke = FALSE
    /\ stop_calls = 0
    /\ pulled_at_stop = 0
    /\ now = 0
    /\ start_time = 0
    /\ got_time = 0
    /\ fragment_receive_duration = 0

MdInit ==
    /\ PipelineIdle
    /\ BbIdle
    /\ WsIdle
    /\ \E n \in 0..MaxMdFrames : md_frames \in [1..n -> MdFrame]
    /\ \/ /\ md_ratio \in (-1)..(MaxMdFrames + 1)
          /\ md_threshold = DefaultThreshold
          /\ md_min_motion_pixels = DefaultMinMotionPixels
       \/ /\ md_ratio = 1
          /\ md_threshold \in {0, DefaultThreshold}
          /\ md_min_motion_pixels \in {0, 1, DefaultMinMotionPixels}
    /\ md_pc = "ready"
    /\ md_result = NoResult

\* frames = self.motion_detector.get_frames_as_ndarray(fragment_bytes, ratio)
MdGetFrames ==
    /\ md_pc = "ready"
    /\ md_result' = get_frames_as_ndarray(md_frames, md_ratio)
    /\ md_pc' = "selected"
    /\ UNCHANGED <<pipelineVars, bbVars, wsVars, md_frames, md_ratio, md_threshold,
                   md_min_motion_pixels>>

\* motion_frames = self.motion_detector.frame_differencing(frames, ...)
MdFrameDifferencing ==
    /\ md_pc = "ready"
    /\ md_result' = frame_differencing(md_frames, md_threshold, md_min_motion_pixels)
    /\ md_pc' = "differenced"
    /\ UNCHANGED <<pipelineVars, bbVars, wsVars, md_frames, md_ratio, md_threshold,
                   md_min_motion_pixels>>

\* The mean-difference variant applied to the frames.
MdMeanDifference ==
    /\ md_pc = "ready"
    /\ md_result' = mean_difference(md_frames, md_threshold)
    /\ md_pc' = "mean_differenced"
    /\ UNCHANGED <<pipelineVars, bbVars, wsVars, md_frames, md_ratio, md_threshold,
                   md_min_motion_pixels>>

MdNext ==
    \/ MdGetFrames
    \/ MdFrameDifferencing
    \/ MdMeanDifference

MdSpec == MdInit /\ [][MdNext]_vars

BbInit ==
    /\ PipelineIdle
    /\ MdIdle
    /\ WsIdle
    /\ \E n \in 0..MaxLabels : bb_labels \in [1..n -> Label]
    /\ bb_pc = "ready"
    /\ bb_result = <<>>

\* fragment_bounding_boxes = self.get_bounding_boxes(labels_fragment)
GetBoundingBoxes ==
    /\ bb_pc = "ready"
    /\ bb_result' = get_bounding_boxes(bb_labels)
    /\ bb_pc' = "done"
    /\ UNCHANGED <<pipelineVars, mdVars, wsVars, bb_labels>>

BbNext == GetBoundingBoxes

BbSpec == BbInit /\ [][BbNext]_vars

\* websocket_ag.send_message_to_clients(self.apigw_client,
\* active_connections, {...}) is called.
WsInit ==
    /\ PipelineIdle
    /\ MdIdle
    /\ BbIdle
    /\ \E n \in 0..MaxConnections : ws_connections \in [1..n -> ConnectionId]
    /\ ws_message \in Message
    /\ ws_next = 1
    /\ ws_pc = "loop"
    /\ ws_posts = <<>>
    /\ ws_printed = <<>>

\* One iteration of the for loop in which post_to_connection returns.
PostOk ==
    /\ ws_pc = "loop"
    /\ ws_next <= Len(ws_connections)
    /\ ws_posts' = Append(ws_posts, PostCall(ws_connections[ws_next], ws_message))
    /\ ws_next' = ws_next + 1
    /\ UNCHANGED <<pipelineVars, mdVars, bbVars, ws_connections, ws_message, ws_pc,
                   ws_printed>>

\* Mutation of PostGone: the loop is left once a connection is gone.
PostGone_Breaks ==
    /\ ws_pc = "loop"
    /\ ws_next <= Len(ws_connections)
    /\ ws_posts' = Append(ws_posts, PostCall(ws_connections[ws_next], ws_message))
    /\ ws_printed' = Append(ws_printed,
                        [kind |-> "gone", ConnectionId |-> ws_connections[ws_next]])
    /\ ws_next' = Len(ws_connections) + 1
    /\ UNCHANGED <<pipelineVars, mdVars, bbVars, ws_connections, ws_message, ws_pc>>

\* One iteration in which post_to_connection raises GoneException: the first
\* except clause prints and the loop goes on.
PostGone ==
    /\ ws_pc = "loop"
    /\ ws_next <= Len(ws_connections)
    /\ ws_posts' = Append(ws_posts, PostCall(ws_connections[ws_next], ws_message))
    /\ ws_printed' = Append(ws_printed,
                        [kind |-> "gone", ConnectionId |-> ws_connections[ws_next]])
    /\ ws_next' = ws_next + 1
    /\ UNCHANGED <<pipelineVars, mdVars, bbVars, ws_connections, ws_message, ws_pc>>

\* Mutation of PostError: there is no except Exception clause, the exception
\* leaves the function.
PostError_Propagates ==
    /\ ws_pc = "loop"
    /\ ws_next <= Len(ws_connections)
    /\ ws_posts' = Append(ws_posts, PostCall(ws_connections[ws_next], ws_message))
    /\ ws_pc' = "raised"
    /\ UNCHANGED <<pipelineVars, mdVars, bbVars, ws_connections, ws_message, ws_next,
                   ws_printed>>

\* One iteration in which post_to_connection raises another Exception: the
\* second except clause prints and the loop goes on.
PostError ==
    /\ ws_pc = "loop"
    /\ ws_next <= Len(ws_connections)
    /\ ws_posts' = Append(ws_posts, PostCall(ws_connections[ws_next], ws_message))
    /\ ws_printed' = Append(ws_printed,
                        [kind |-> "error", ConnectionId |-> ws_connections[ws_next]])
    /\ ws_next' = ws_next + 1
    /\ UNCHANGED <<pipelineVars, mdVars, bbVars, ws_connections, ws_message, ws_pc>>

\* The for loop is exhausted and the function returns.
WsReturn ==
    /\ ws_pc = "loop"
    /\ ws_next > Len(ws_connections)
    /\ ws_pc' = "returned"
    /\ UNCHANGED <<pipelineVars, mdVars, bbVars, ws_connections, ws_message, ws_next,
                   ws_posts, ws_printed>>

WsNext ==
    \/ PostOk
    \/ PostGone
    \/ PostError
    \/ WsReturn

WsSpec == WsInit /\ [][WsNext]_vars

\* ------------------------------------------------- vocabulary of the claims
IsBatch(x) == x.kind = "batch"

PutBatches == SelectSeq(put_log, IsBatch)

GotBatches == SelectSeq(got_log, IsBatch)

IsFragment(e) == e.type = "fragment"

IsComplete(e) == e.type = "complete"

IsException(e) == e.type = "exception"

Fragments == SelectSeq(events, IsFragment)

Count(seq, x) == Cardinality({i \in 1..Len(seq) : seq[i] = x})

CountType(t) == Cardinality({i \in 1..Len(events) : events[i].type = t})

RECURSIVE Flatten(_)
Flatten(batches) ==
    IF batches = <<>> THEN <<>>
    ELSE Head(batches).frames \o Flatten(Tail(batches))

FramesOf(batches) ==
    UNION {{batches[i].frames[j] : j \in 1..Len(batches[i].frames)} :
             i \in 1..Len(batches)}

Range(seq) == {seq[i] : i \in 1..Len(seq)}

\* run has left the for loop, flushed and put the terminal marker.
MarkerPut == Count(put_log, None) > 0

MarkersObserved == Count(got_log, None)

CeilDiv(n, k) == (n + k - 1) \div k

\* ------------------------------------------------------------------ claims

\* C1: with frame_group_size k > 0, no stop observed and no ingestion failure,
\* once run has flushed and put the marker the batches put on frame_queue,
\* concatenated in order, are exactly the source frames, and every batch but
\* the last has exactly k frames.
C1_BatchesPartitionSource ==
    (frame_group_size > 0 /\ ~broke /\ MarkerPut)
    => /\ Flatten(PutBatches) = source
       /\ \A i \in 1..(Len(PutBatches) - 1) :
             Len(PutBatches[i].frames) = frame_group_size

C1_Witness ==
    /\ runPc = "done" /\ raised = {} /\ ~stop_get_media
    /\ frame_group_size = 2 /\ Len(source) = 3
    /\ Len(PutBatches) = 2 /\ Len(PutBatches[2].frames) = 1

\* C2 (as stated): when a run that started its worker has ended,
\* process_queue has observed exactly one terminal marker, after every batch.
C2_ExactlyOneMarkerPerRun ==
    (frame_group_size > 0 /\ runPc = "done" /\ workerPc # "not_started")
    => (MarkersObserved = 1 /\ got_log = put_log)

\* C2 (amended): process_queue observes at most one terminal marker, only
\* after it has popped every batch put on the queue, and it has observed
\* exactly one whenever it has left its loop normally.
C2_AtMostOneMarkerAfterAllBatches ==
    /\ MarkersObserved <= 1
    /\ MarkersObserved = 1 =>
          (got_log = put_log /\ got_log[Len(got_log)] = None /\ frame_queue = <<>>)
    /\ (workerPc = "done") = (MarkersObserved = 1)

C2_Witness ==
    /\ workerPc = "done" /\ MarkersObserved = 1 /\ Len(GotBatches) = 2

\* C3: no run invokes both the stream-complete and the stream-exception
\* callback.
C3_CompleteExcludesException ==
    frame_group_size > 0 =>
    ~(CountType("complete") > 0 /\ CountType("exception") > 0)

\* C4: once the frame source has raised in the ingestion loop, the loop is
\* over, the partially accumulated frames are in no batch, the terminal marker
\* is never put, and when run ends the stream-exception callback has been
\* invoked exactly once, with the decode error.
C4_DecodeFailureAborts ==
    ("decode" \in raised)
    => /\ runPc \in {"except_decode", "done"}
       /\ ~MarkerPut
       /\ Flatten(PutBatches) \o frames_accumulated = SubSeq(source, 1, fail_after)
       /\ Range(frames_accumulated) \cap FramesOf(PutBatches) = {}
       /\ CountType("exception") = (IF runPc = "done" THEN 1 ELSE 0)
       /\ \A i \in 1..Len(events) :
             IsException(events[i]) => events[i].detail = "decode_error"

C4_Witness ==
    /\ "decode" \in raised /\ runPc = "done"
    /\ Len(PutBatches) = 1 /\ Len(frames_accumulated) = 1
    /\ CountType("exception") = 1

\* C5: an encoding failure abandons only its batch: when a run has completed
\* in which nothing but the encoder raised, process_queue has popped every
\* item and delivered every batch whose frames all encode, and
\* stream-exception was not invoked.
Encodable(b) == ~frames_to_bytes_raises(b.frames)

C5_EncodingFailureIsLocal ==
    (frame_group_size > 0 /\ runPc = "done" /\ CountType("complete") > 0
       /\ raised \subseteq {"encode"})
    => /\ got_log = put_log
       /\ Len(Fragments) = Len(SelectSeq(PutBatches, Encodable))
       /\ CountType("exception") = 0

\* C6 (as stated): when the loop was left through break, the frames
\* accumulated at that moment are in no batch put on the queue.
C6_StopDiscardsPartialBatch ==
    (broke /\ MarkerPut)
    => Range(frames_accumulated) \cap FramesOf(PutBatches) = {}

\* C6 (amended): when the loop was left through break, only the frame pulled
\* at the observing check is dropped; the frames accumulated so far are put on
\* the queue as a final short batch, followed by the terminal marker, and run
\* goes on to join the worker.
C6_StopFlushesPartialBatch ==
    (broke /\ MarkerPut)
    => /\ Flatten(PutBatches) = SubSeq(source, 1, pulled - 1)
       /\ frame = source[pulled] /\ frame \notin FramesOf(PutBatches)
       /\ frames_accumulated # <<>> =>
             PutBatches[Len(PutBatches)].frames = frames_accumulated
       /\ put_log[Len(put_log)] = None
       /\ Count(put_log, None) = 1
       /\ runPc \in {"complete", "except_callback", "done"} =>
             workerPc \in {"done", "crashed"}

C6_Witness ==
    /\ broke /\ runPc = "done" /\ workerPc = "done"
    /\ frame_group_size = 3 /\ Len(frames_accumulated) = 2
    /\ Len(Fragments) = 1

\* C7: stream-complete is invoked at most once, only after process_queue has
\* popped the terminal marker and returned, and never after an ingestion
\* failure.
C7_CompleteOnlyAfterMarker ==
    /\ CountType("complete") <= 1
    /\ (frame_group_size > 0 /\ CountType("complete") > 0) =>
          /\ workerPc = "done" /\ MarkersObserved = 1
          /\ raised \cap {"open", "decode"} = {}

\* C8: in a run without any failure and without an observed stop, with
\* frame_group_size k > 0 over n frames, the callbacks invoked are
\* ceil(n/k) fragment-arrived notifications followed by one stream-complete.
C8_NotificationCount ==
    LET nb == CeilDiv(Len(source), frame_group_size) IN
    (frame_group_size > 0 /\ ~broke /\ raised = {})
    => /\ CountType("exception") = 0
       /\ Len(Fragments) <= nb
       /\ \A i \in 1..Len(events) : IsComplete(events[i]) => i = nb + 1
       /\ runPc = "done" =>
             /\ Len(events) = nb + 1
             /\ \A i \in 1..nb : IsFragment(events[i])
             /\ IsComplete(events[nb + 1])

C8_Witness ==
    /\ runPc = "done" /\ raised = {} /\ ~stop_get_media
    /\ Len(source) = 3 /\ frame_group_size = 2
    /\ Len(events) = 3 /\ IsComplete(events[3])
    /\ Len(PutBatches[1].frames) = 2 /\ Len(PutBatches[2].frames) = 1

\* C9: when the frame source raises after f frames with f < frame_group_size,
\* there is no fragment-arrived and no stream-complete notification, and the
\* run ends with exactly one stream-exception notification.
C9_EarlyDecodeFailure ==
    ("decode" \in raised /\ fail_after < frame_group_size)
    => events = (IF runPc = "done" THEN <<ExceptionEvent("decode_error")>> ELSE <<>>)

C9_Witness ==
    /\ "decode" \in raised /\ fail_after = 2 /\ frame_group_size = 3
    /\ runPc = "done" /\ Len(events) = 1

\* C10: the i-th fragment-arrived notification carries the encoding of the
\* i-th batch put on the queue, and the batches hold the source frames in
\* source order.
C10_ArrivalOrder ==
    /\ Len(Fragments) <= Len(PutBatches)
    /\ \A i \in 1..Len(Fragments) :
          Fragments[i].payload = frames_to_bytes(PutBatches[i].frames)
    /\ Flatten(PutBatches) = SubSeq(source, 1, Len(Flatten(PutBatches)))
    /\ \A i \in 1..Len(got_log) : got_log[i] = put_log[i]

C10_Witness ==
    /\ Len(Fragments) = 2 /\ Len(PutBatches) >= 2
    /\ Len(PutBatches[1].frames) = 2
    /\ Fragments[1].payload # Fragments[2].payload

\* run has got past the for loop without an exception of av.open or decode.
IngestionEnded ==
    \/ runPc \in {"join", "complete", "except_callback"}
    \/ runPc = "done" /\ raised \cap {"open", "decode"} = {}

\* C11: the items put on frame_queue are batches followed, once the source has
\* ended normally, by exactly one terminal marker as the last item: the marker
\* is put at most once, nothing is put after it, and it is put even when the
\* source had no frame.
C11_MarkerLastAndOnce ==
    /\ Count(put_log, None) <= 1
    /\ MarkerPut => put_log = PutBatches \o <<None>>
    /\ IngestionEnded => MarkerPut
    /\ (IngestionEnded /\ source = <<>>) => put_log = <<None>>

C11_Witness ==
    /\ runPc = "done" /\ source = <<>> /\ raised = {}
    /\ put_log = <<None>> /\ got_log = <<None>>

\* C12: in a run stopped through the flag, stream-complete is invoked only
\* after the terminal marker was put, the drain task has observed it and
\* returned, and the worker thread has been joined.
C12_ShutdownSequence ==
    (frame_group_size > 0 /\ broke /\ CountType("complete") > 0)
    => /\ MarkerPut
       /\ MarkersObserved = 1
       /\ workerPc = "done"

\* C13: process_queue stops looping only after it has popped the terminal
\* marker.
C13_MarkerIsSoleExit ==
    (frame_group_size > 0
     /\ workerPc \notin {"not_started", "mark", "get", "encode", "notify"})
    => MarkersObserved = 1

\* C14: a run configured with frame_group_size <= 0 pulls no frame and puts
\* no batch on the queue.
C14_NonPositiveGroupSizeRejected ==
    frame_group_size <= 0 => (pulled = 0 /\ PutBatches = <<>>)

\* C15: the stop flag is looked at once per pulled frame: once it is set, at
\* most one more frame is pulled, and after that pull the loop is left
\* through break without pulling again.
C15_StopWithinOnePull ==
    /\ stop_get_media => pulled <= pulled_at_stop + 1
    /\ (stop_get_media /\ pulled > pulled_at_stop) =>
          (runPc # "pull" /\ (runPc # "body" => broke))
    /\ broke => stop_get_media

C15_Witness ==
    /\ stop_get_media /\ broke /\ runPc = "done"
    /\ pulled = pulled_at_stop + 1 /\ pulled_at_stop = 1
    /\ Len(source) = 4

\* C16: put never blocks and get blocks on an empty queue: wherever run is
\* about to put, the put can be taken whatever the length of the queue, the
\* worker cannot take an item from an empty queue, and what was popped
\* followed by what is queued is exactly what was put.
C16_PutNeverBlocksGetBlocks ==
    /\ runPc = "body" => ENABLED LoopBody
    /\ runPc = "flush" => ENABLED Flush
    /\ runPc = "put_none" => ENABLED PutNone
    /\ (workerPc = "get" /\ frame_queue = <<>>) => ~ENABLED Get
    /\ got_log \o frame_queue = put_log

C16_Witness ==
    /\ workerPc = "get" /\ got_log = <<>>
    /\ Len(frame_queue) = 4 /\ runPc = "join"

\* C17: stop_thread never clears the flag, and a call made when the flag is
\* already set changes nothing of the pipeline (only the count of calls).
C17_StopIdempotent ==
    [][/\ stop_get_media => stop_get_media'
       /\ (stop_get_media /\ stop_calls' # stop_calls) =>
             UNCHANGED <<mdVars, bbVars, wsVars, now, inputs, stop_get_media, pulled_at_stop,
                         frame_queue, runVars, workerVars, put_log, events,
                         raised>>]_vars

C17_Witness ==
    /\ stop_calls = 2 /\ stop_get_media /\ broke /\ runPc = "done"

\* The encodings of the frames of a batch, one after the other.
RECURSIVE ConcatEncodings(_)
ConcatEncodings(frames) ==
    IF frames = <<>> THEN <<>>
    ELSE ConcatEncodings(SubSeq(frames, 1, Len(frames) - 1))
           \o EncodeFrame(frames[Len(frames)])

\* C21: the payload of every fragment-arrived notification is the
\* concatenation, in frame order, of the encodings of the frames of the batch
\* it was made from, and the size of its metadata is the length of the payload.
C21_PayloadAndSize ==
    \A i \in 1..Len(Fragments) :
        /\ Fragments[i].payload = ConcatEncodings(GotBatches[i].frames)
        /\ Fragments[i].size = Len(Fragments[i].payload)

C21_Witness ==
    /\ Len(Fragments) = 1 /\ Len(GotBatches[1].frames) = 3
    /\ Fragments[1].size = 5

\* C26: no fragment-arrived notification follows a stream-exception
\* notification.
C26_NoFragmentAfterException ==
    frame_group_size > 0 =>
    \A i \in 1..Len(events) : \A j \in 1..Len(events) :
        (i < j /\ IsException(events[i])) => ~IsFragment(events[j])

\* C28: when stream-complete has been invoked, every batch put on the queue
\* was delivered through a fragment-arrived notification and the queue is
\* empty.
C28_CompleteMeansAllDelivered ==
    (frame_group_size > 0 /\ CountType("complete") > 0)
    => /\ Len(Fragments) = Len(PutBatches)
       /\ frame_queue = <<>>

\* C29: the batches put on the queue, concatenated, are a prefix of the
\* source; the frame pulled at the check that observed the stop flag is in no
\* batch; and when stop_thread was called before the first frame was pulled
\* (the flag is never reset by run), no batch is put at all.
C29_StopGivesPrefix ==
    /\ Flatten(PutBatches) = SubSeq(source, 1, Len(Flatten(PutBatches)))
    /\ broke => /\ frame \notin FramesOf(PutBatches)
                /\ Len(Flatten(PutBatches)) <= pulled - 1
    /\ (stop_calls > 0 /\ pulled_at_stop = 0) => PutBatches = <<>>

C29_Witness ==
    /\ stop_calls > 0 /\ pulled_at_stop = 0 /\ broke /\ runPc = "done"
    /\ Len(source) = 3 /\ frame_group_size = 1 /\ put_log = <<None>>

\* C30: whatever frame_group_size is (0 and negative values included), every
\* batch put on frame_queue is non-empty and has at most
\* max(1, frame_group_size) frames.
C30_BatchSizeBounds ==
    LET cap == IF frame_group_size > 1 THEN frame_group_size ELSE 1 IN
    /\ \A i \in 1..Len(frame_queue) :
          IsBatch(frame_queue[i]) =>
             (Len(frame_queue[i].frames) >= 1 /\ Len(frame_queue[i].frames) <= cap)
    /\ \A i \in 1..Len(PutBatches) :
          Len(PutBatches[i].frames) >= 1 /\ Len(PutBatches[i].frames) <= cap

C30_Witness ==
    /\ frame_group_size = -1 /\ Len(source) = 2
    /\ Len(frame_queue) = 3 /\ Len(frame_queue[1].frames) = 1
    /\ Len(frame_queue[2].frames) = 1

\* ---------------------------------------------- claims on MotionDetector
RECURSIVE SortedSeq(_)
SortedSeq(S) ==
    IF S = {} THEN <<>>
    ELSE LET m == CHOOSE x \in S : \A y \in S : x <= y
         IN <<m>> \o SortedSeq(S \ {m})

\* Number of pixels whose intensities in frames a and b differ by more than th.
ChangedPixels(a, b, th) ==
    Cardinality({p \in 1..FramePixels : Abs(Gray(a[p]) - Gray(b[p])) > th})

\* C18 (as stated): select(frames, N) is the frames at indices 0, N, 2N, ...;
\* with N = 1 it is the input, and with N = len(frames) + 1 it is exactly one
\* frame, the first, for every input sequence.
C18_SelectEveryNth ==
    (md_pc = "selected" /\ md_ratio >= 1)
    => /\ ~md_result.raised
       /\ md_result.indices = [k \in 1..CeilDiv(Len(md_frames), md_ratio) |->
                                 (k - 1) * md_ratio + 1]
       /\ md_ratio = 1 => md_result.frames = md_frames
       /\ md_ratio = Len(md_frames) + 1 =>
             (Len(md_result.frames) = 1 /\ md_result.frames[1] = md_frames[1])

\* C18 (amended): select(frames, N) is the frames at indices 0, N, 2N, ...;
\* with N = 1 it is the input, and with N = len(frames) + 1 it is exactly one
\* frame, the first, for every non-empty input sequence (and no frame for
\* the empty sequence).
C18_SelectEveryNthNonEmpty ==
    (md_pc = "selected" /\ md_ratio >= 1)
    => /\ ~md_result.raised
       /\ md_result.indices = [k \in 1..CeilDiv(Len(md_frames), md_ratio) |->
                                 (k - 1) * md_ratio + 1]
       /\ md_result.frames = [k \in 1..Len(md_result.indices) |->
                                md_frames[md_result.indices[k]]]
       /\ md_ratio = 1 => md_result.frames = md_frames
       /\ (md_ratio = Len(md_frames) + 1 /\ md_frames # <<>>) =>
             (Len(md_result.frames) = 1 /\ md_result.frames[1] = md_frames[1])
       /\ (md_ratio = Len(md_frames) + 1 /\ md_frames = <<>>) =>
             md_result.frames = <<>>

C18_Witness ==
    /\ md_pc = "selected" /\ md_ratio = 2 /\ Len(md_frames) = 3
    /\ md_result.indices = <<1, 3>>
    /\ md_frames[1] # md_frames[2] /\ md_frames[2] # md_frames[3]

C22_MeanDifference ==
    md_pc = "mean_differenced" =>
      /\ ~md_result.raised
      /\ md_frames # <<>> =>
            (md_result.frames # <<>> /\ md_result.indices[1] = 1)
      /\ (md_threshold = 0
           /\ \A i \in 2..Len(md_frames) : md_frames[i] # md_frames[i - 1])
         => md_result.frames = md_frames
      /\ \A i \in 2..Len(md_frames) :
            (i \in Range(md_result.indices))
              <=> MeanExceeds(md_frames[i], md_frames[i - 1], md_threshold)

C22_Witness ==
    /\ md_pc = "mean_differenced" /\ md_threshold = DefaultThreshold
    /\ Len(md_frames) = 3
    /\ md_frames[1][1] = <<0, 0, 0>> /\ md_frames[2][1] = <<0, 0, 255>>
    /\ md_frames[3][1] = <<255, 0, 255>>
    /\ md_result.indices = <<1>>

\* C23: frame_differencing given no frame, or one frame, returns an empty
\* list without raising, and the input sequence is left as it was.
C23_EmptyInputIsNoError ==
    /\ [](md_pc = "differenced" /\ Len(md_frames) <= 1
            => (~md_result.raised /\ md_result.frames = <<>>))
    /\ [][md_pc' = "differenced" => md_frames' = md_frames]_vars

C23_Witness ==
    /\ md_pc = "differenced" /\ Len(md_frames) = 1
    /\ md_frames[1][1] = <<255, 0, 255>>
    /\ md_threshold = DefaultThreshold /\ md_min_motion_pixels = 0
    /\ md_result.frames = <<>>
\* The names listed in the Parents of a label that has an instance.
ParentsOfInstanced(labels) ==
    UNION {labels[i].Parents :
             i \in {j \in 1..Len(labels) : Len(labels[j].Instances) > 0}}

Orderings(n) ==
    {f \in [1..n -> 1..n] : \A i, j \in 1..n : i # j => f[i] # f[j]}

\* The Parents of every label hold the Parents of each of its parents that
\* is in the list too, as in a DetectLabels response, which lists all the
\* ancestors of a label.
AncestorClosed(labels) ==
    \A i, j \in 1..Len(labels) :
        labels[j].Name \in labels[i].Parents
          => labels[j].Parents \subseteq labels[i].Parents

C27_WorkerTerminates ==
    (frame_group_size > 0 /\ workerPc # "not_started")
      ~> (workerPc \in {"done", "crashed"})
\* C24: fragment_receive_duration is the time from the moment the batch
\* was popped to the end of its encoding, the time spent blocked in get()
\* left out.
C24_DurationCoversEncodingOnly ==
    [][(workerPc = "encode" /\ workerPc' = "notify")
         => fragment_receive_duration' = now - got_time]_vars

\* C24 (amended): the start of the interval is taken at the top of the loop,
\* before get(), and get() leaves it as it is, so fragment_receive_duration
\* is the time spent in get() plus the time of the encoding.
C24_DurationCoversWaitAndEncoding ==
    [][/\ (workerPc = "get" /\ workerPc' # "get")
          => (start_time' = start_time /\ start_time <= now)
       /\ (workerPc = "encode" /\ workerPc' = "notify")
          => /\ start_time <= got_time /\ got_time <= now
             /\ fragment_receive_duration'
                  = (got_time - start_time) + (now - got_time)]_vars

C24_Witness ==
    /\ workerPc = "notify"
    /\ start_time = 0 /\ got_time = 1 /\ now = 2
    /\ fragment_receive_duration = 2
\* C31: send_message_to_clients calls post_to_connection once for every
\* entry of active_connections, in order; a failure for one connection
\* neither stops the calls for the connections after it nor leaves the
\* function as an exception.
C31_EveryConnectionAttempted ==
    /\ ws_pc # "raised"
    /\ Len(ws_posts) = ws_next - 1
    /\ \A i \in 1..Len(ws_posts) :
          /\ i <= Len(ws_connections)
          /\ ws_posts[i].ConnectionId = ws_connections[i]
    /\ ws_pc = "returned" => Len(ws_posts) = Len(ws_connections)
    /\ ws_pc = "loop" => ENABLED WsNext

C31_Witness ==
    /\ ws_pc = "returned"
    /\ ws_connections = <<1, 2, 1>>
    /\ Len(ws_posts) = 3
    /\ ws_printed = <<[kind |-> "gone", ConnectionId |-> 1],
                      [kind |-> "error", ConnectionId |-> 2]>>
====
